---- MODULE Spec2Model ----
(***************************************************************************)
(* The record store of iNaturalistDataset (src/dataset_old.py, the         *)
(* ancestry-walk variant; src/dataset_tax.py shares the filter pipeline)   *)
(* as a state machine: the five collections, the three index maps, and one *)
(* action per method.                                                      *)
(*                                                                         *)
(* Encoding of the Python values:                                          *)
(*   - a list is a sequence, a comprehension [x for x in l if p] is        *)
(*     SelectSeq, a dict used as an index map is the set of its            *)
(*     keys (its values are references to the records of the list it was   *)
(*     built from);                                                        *)
(*   - ids are positive integers, None (a null id) is NoneId;              *)
(*   - a raw rank_level that float() rejects is NonNumericRank;            *)
(*   - an ancestry string is the list of its '/'-separated tokens, a token *)
(*     that int() rejects (the empty token of '' included) is BadToken;    *)
(*   - created_at is [fmt, t]: the format its text is written in and the   *)
(*     instant it denotes;                                                 *)
(*   - the 'time' key keep_one_identification_per_user_per_observation     *)
(*     adds to an identification is read by its sort alone; the records of *)
(*     the model do not carry it;                                          *)
(*   - taxon ids are unique in an archive (the code never checks it);      *)
(*   - a dict that is iterated (the prior mapping) is the sequence of its  *)
(*     items in insertion order; the float c / total is the fraction       *)
(*     [num |-> c, den |-> total];                                         *)
(*   - the order in which a set is iterated is any order of its elements;  *)
(*   - the lists and dicts main loads are shared by the stores it builds:  *)
(*     main.identifications is the list object main loaded, as the stores  *)
(*     left it, and an identification dict is known by its id.             *)
(***************************************************************************)
EXTENDS Integers, Sequences, FiniteSets, TLC

VARIABLES
    observations,        \* self.observations
    observation_photos,  \* self.observation_photos
    identifications,     \* self.identifications
    taxa,                \* self.taxa
    users,               \* self.users
    taxon_id_to_taxon,   \* keys of self.taxon_id_to_taxon
    ob_id_to_ob,         \* keys of self.ob_id_to_ob
    iden_id_to_iden,     \* keys of self.iden_id_to_iden
    taxa_priors,         \* what estimate_taxa_priors returned (local of main)
    dataset,             \* what create_dataset returned
    status,              \* "raw" before __init__, "ok", or the exception raised
    call,                \* the last method called and its argument
    pre,                 \* the collections and index maps when that call began
    main                 \* the frame of main(): its locals besides the store at work

vars == <<observations, observation_photos, identifications, taxa, users,
          taxon_id_to_taxon, ob_id_to_ob, iden_id_to_iden, taxa_priors, dataset,
          status, call, pre, main>>

----------------------------------------------------------------------------
(* Bounds of the model. *)

MaxIdens == 3

\* The longest list of identifications that name the genus or an unknown taxon.
MaxRun == 4

\* The most identifications of an archive the datasets are assembled from.
MaxAnnos == 4

----------------------------------------------------------------------------
(* Python values. *)

NoneId == 0
NonNumericRank == 0 - 1
BadToken == 0 - 1

Ok == "ok"

\* {x['id'] : x for x in l}: the keys of the rebuilt index map.
IndexMap(l) == {l[i].id : i \in DOMAIN l}

\* The position list.remove(x) deletes: the first element equal to x; 0 if none.
IndexOf(l, x) ==
    IF \E i \in DOMAIN l : l[i] = x
    THEN CHOOSE i \in DOMAIN l : l[i] = x /\ \A j \in 1..(i-1) : l[j] # x
    ELSE 0

\* l after list.remove(x), for x in l.
ListRemove(l, x) ==
    LET k == IndexOf(l, x)
    IN  [i \in 1..(Len(l) - 1) |-> IF i < k THEN l[i] ELSE l[i + 1]]

\* self as one record.
Store(obs, photos, idens, tx, us, tmap, omap, imap) ==
    [observations |-> obs, observation_photos |-> photos,
     identifications |-> idens, taxa |-> tx, users |-> us,
     taxon_id_to_taxon |-> tmap, ob_id_to_ob |-> omap, iden_id_to_iden |-> imap]

\* What a method leaves: self, and the exception it raised ("ok" if none).
Returned(self) == [self |-> self, raised |-> Ok]
Raised(self, exc) == [self |-> self, raised |-> exc]

----------------------------------------------------------------------------
(* __init__ and _sanity_check_data. *)

\* float(taxon['rank_level']) succeeds.
IsNumeric(rank_level) == rank_level # NonNumericRank

\* taxa_to_keep: numeric rank level and the community taxon of an observation.
SanityTaxaToKeep(self) ==
    LET obs_taxon_ids == {self.observations[i].community_taxon_id :
                              i \in DOMAIN self.observations}
    IN  SelectSeq(self.taxa,
               LAMBDA taxon : IsNumeric(taxon.rank_level)
                              /\ taxon.id \in obs_taxon_ids)

\* The loop "for iden in self.identifications: ... self.identifications.remove(iden)"
\* with the list iterator at position i of the list l it is mutating.
RECURSIVE DanglingPass(_, _, _)
DanglingPass(self, l, i) ==
    IF i > Len(l) THEN [list |-> l, raised |-> Ok]
    ELSE LET iden == l[i]
             l1 == IF iden.taxon_id \notin self.taxon_id_to_taxon
                   THEN ListRemove(l, iden) ELSE l
         IN  IF iden.observation_id \notin self.ob_id_to_ob
             THEN IF IndexOf(l1, iden) = 0
                  THEN [list |-> l1, raised |-> "ValueError"]
                  ELSE DanglingPass(self, ListRemove(l1, iden), i + 1)
             ELSE DanglingPass(self, l1, i + 1)

\* The assertion with both sides deduplicated: it never fails.
UniqueIds_SetOnBothSides(l) == Cardinality(IndexMap(l)) = Cardinality(IndexMap(l))

\* assert len(ids) == len(set(ids))
UniqueIds(l) == Len(l) = Cardinality(IndexMap(l))

SanityCheckData(self) ==
    LET keep == SanityTaxaToKeep(self)
        s1 == IF Len(keep) # Len(self.taxa)
              THEN LET tmap == IndexMap(keep)
                       idens == SelectSeq(self.identifications,
                                       LAMBDA iden : iden.taxon_id \in tmap)
                   IN  [self EXCEPT !.taxa = keep, !.taxon_id_to_taxon = tmap,
                                    !.identifications = idens,
                                    !.iden_id_to_iden = IndexMap(idens)]
              ELSE self
        p == DanglingPass(s1, s1.identifications, 1)
        s2 == [s1 EXCEPT !.identifications = p.list]
    IN  IF p.raised # Ok THEN Raised(s2, p.raised)
        ELSE IF ~UniqueIds(s2.identifications) THEN Raised(s2, "AssertionError")
        ELSE IF ~UniqueIds(s2.observations) THEN Raised(s2, "AssertionError")
        ELSE Returned(s2)

Construct(obs, photos, idens, tx, us) ==
    SanityCheckData(Store(obs, photos, idens, tx, us,
                          IndexMap(tx), IndexMap(obs), IndexMap(idens)))

----------------------------------------------------------------------------
(* The integrity filter pipeline. *)

\* ob_id_to_idens[iden['observation_id']].append(iden) raises KeyError for an
\* identification whose observation is not in self.observations.
GroupingKeyError(self, idens) ==
    \E i \in DOMAIN idens :
        idens[i].observation_id \notin IndexMap(self.observations)

\* ob_id_to_idens[ob_id]
IdensOfOb(idens, ob_id) == SelectSeq(idens, LAMBDA iden : iden.observation_id = ob_id)

\* The cascade forgotten: only the index is rebuilt.
CascadeObsToIdens_IndexOnly(self) ==
    [self EXCEPT !.iden_id_to_iden = IndexMap(self.identifications)]

\* The cascade every observation filter ends with: identifications of the
\* observations left, and the identification index.
CascadeObsToIdens(self) ==
    LET idens == SelectSeq(self.identifications,
                        LAMBDA iden : iden.observation_id \in self.ob_id_to_ob)
    IN  [self EXCEPT !.identifications = idens, !.iden_id_to_iden = IndexMap(idens)]

\* The photos cascaded too: those of the observations kept.
ReplaceObservations_PhotosCascaded(self, obs_to_keep) ==
    CascadeObsToIdens([self EXCEPT
        !.observations = obs_to_keep,
        !.ob_id_to_ob = IndexMap(obs_to_keep),
        !.observation_photos =
            SelectSeq(self.observation_photos,
                      LAMBDA ob_image : ob_image.observation_id \in IndexMap(obs_to_keep))])

\* observations := obs_to_keep, rebuild ob_id_to_ob, cascade.
ReplaceObservations(self, obs_to_keep) ==
    CascadeObsToIdens([self EXCEPT !.observations = obs_to_keep,
                                   !.ob_id_to_ob = IndexMap(obs_to_keep)])

KeepSpecificObservations(self, observation_ids_to_keep) ==
    Returned(ReplaceObservations(self,
        SelectSeq(self.observations, LAMBDA ob : ob.id \in observation_ids_to_keep)))

RemoveObsWithNoPhotos(self) ==
    LET ob_ids_with_urls == {self.observation_photos[i].observation_id :
                                 i \in DOMAIN self.observation_photos}
    IN  Returned(ReplaceObservations(self,
            SelectSeq(self.observations, LAMBDA ob : ob.id \in ob_ids_with_urls)))

\* ">" where the method has ">=".
MinObIdsToKeep_Strict(self, min_identifications) ==
    {ob_id \in IndexMap(self.observations) :
        Len(IdensOfOb(self.identifications, ob_id)) > min_identifications}

\* ob_ids_to_keep of enforce_min_identifications
MinObIdsToKeep(self, min_identifications) ==
    {ob_id \in IndexMap(self.observations) :
        Len(IdensOfOb(self.identifications, ob_id)) >= min_identifications}

EnforceMinIdentifications(self, min_identifications) ==
    IF GroupingKeyError(self, self.identifications) THEN Raised(self, "KeyError")
    ELSE LET ob_ids_to_keep == MinObIdsToKeep(self, min_identifications)
         IN  Returned(ReplaceObservations(self,
                 SelectSeq(self.observations, LAMBDA ob : ob.id \in ob_ids_to_keep)))

\* max_observations is None
NoneArg == 0 - 1

\* random.sample(ob_ids, max_observations) drew the positions `sample`.
EnforceMaxObservations(self, max_observations, sample) ==
    IF max_observations = NoneArg THEN Returned(self)
    ELSE IF max_observations >= Len(self.observations) THEN Returned(self)
    ELSE LET ob_ids_to_keep == {self.observations[i].id : i \in sample}
         IN  Returned(ReplaceObservations(self,
                 SelectSeq(self.observations, LAMBDA ob : ob.id \in ob_ids_to_keep)))

\* A sample that may come short of max_observations.
Samples_AtMost(self, max_observations) ==
    IF max_observations = NoneArg \/ max_observations >= Len(self.observations)
    THEN {{}}
    ELSE {S \in SUBSET DOMAIN self.observations : Cardinality(S) <= max_observations}

\* The samples random.sample can draw: max_observations distinct positions.
Samples(self, max_observations) ==
    IF max_observations = NoneArg \/ max_observations >= Len(self.observations)
    THEN {{}}
    ELSE {S \in SUBSET DOMAIN self.observations : Cardinality(S) = max_observations}

\* "if iden['current']": the flag's truthiness, which the string 'f' has too.
CurrentIdens_Truthy(idens) == idens

\* idens_to_keep of keep_current_identifications
CurrentIdens(idens) == SelectSeq(idens, LAMBDA iden : iden.current = TRUE)

\* ">" where the method has "!=".
SameUserTwice_Greater(idens) ==
    Cardinality({idens[i].user_id : i \in DOMAIN idens}) > Len(idens)

\* len(set([iden['user_id'] for iden in idens])) != len(idens)
SameUserTwice(idens) ==
    Cardinality({idens[i].user_id : i \in DOMAIN idens}) # Len(idens)

\* The filter on the current flag left out.
KeepCurrentIdentifications_KeepsAll(self) == Returned(self)

KeepCurrentIdentifications(self) ==
    LET idens == CurrentIdens(self.identifications)
        s1 == [self EXCEPT !.identifications = idens,
                           !.iden_id_to_iden = IndexMap(idens)]
    IN  IF GroupingKeyError(s1, idens) THEN Raised(s1, "KeyError")
        ELSE IF \E ob_id \in IndexMap(s1.observations) :
                    SameUserTwice(IdensOfOb(idens, ob_id))
             THEN Raised(s1, "AssertionError")
        ELSE Returned(s1)

\* The two formats of dataset_old.py, tried in this order.
FirstFormat == "%Y-%m-%dT%H:%M:%S.%fZ"
SecondFormat == "%Y-%m-%d %H:%M:%S"

\* datetime.strptime(created_at, format) succeeds
Strptime(created_at, format) == created_at.fmt = format

\* The second strptime guarded by a bare except as well.
ParseFails_Swallowed(created_at) == FALSE

\* try strptime(first) except: strptime(second) -- raises when neither matches.
ParseFails(created_at) ==
    ~Strptime(created_at, FirstFormat) /\ ~Strptime(created_at, SecondFormat)

\* iden['time'], for a created_at that parses.
TimeOf(iden) == iden.created_at.t

\* The sort left out: the list stays in list order.
InsertByTime_Unsorted(sorted, x) == Append(sorted, x)

\* list.sort(key=time) is stable: x goes behind every element not later than it.
InsertByTime(sorted, x) ==
    LET n == Cardinality({i \in DOMAIN sorted : TimeOf(sorted[i]) <= TimeOf(x)})
    IN  SubSeq(sorted, 1, n) \o <<x>> \o SubSeq(sorted, n + 1, Len(sorted))

RECURSIVE SortByTime(_)
SortByTime(l) ==
    IF l = <<>> THEN <<>>
    ELSE InsertByTime(SortByTime(SubSeq(l, 1, Len(l) - 1)), l[Len(l)])

\* user_idens[keep_index] for keep_index 0 or -1
AtIndex(l, keep_index) == IF keep_index >= 0 THEN l[keep_index + 1]
                          ELSE l[Len(l) + 1 + keep_index]

\* user_id_to_idens[user_id] within one observation's identifications
IdensOfUser(idens, user_id) == SelectSeq(idens, LAMBDA iden : iden.user_id = user_id)

\* Grouped by observation alone: one identification per observation.
OnePerUserIdsToKeep_PerObservation(self, keep_index) ==
    {AtIndex(SortByTime(IdensOfOb(self.identifications, ob_id)), keep_index).id :
        ob_id \in {self.identifications[i].observation_id :
                       i \in DOMAIN self.identifications}}

\* iden_ids_to_keep of keep_one_identification_per_user_per_observation
OnePerUserIdsToKeep(self, keep_index) ==
    {AtIndex(SortByTime(IdensOfUser(IdensOfOb(self.identifications, g[1]), g[2])),
             keep_index).id :
        g \in {<<self.identifications[i].observation_id,
                 self.identifications[i].user_id>> :
                   i \in DOMAIN self.identifications}}

KeepOneIdentificationPerUserPerObservation(self, keep_index) ==
    IF GroupingKeyError(self, self.identifications) THEN Raised(self, "KeyError")
    ELSE IF \E i \in DOMAIN self.identifications :
                ParseFails(self.identifications[i].created_at)
         THEN Raised(self, "ValueError")
    ELSE LET iden_ids_to_keep == OnePerUserIdsToKeep(self, keep_index)
             idens == SelectSeq(self.identifications,
                             LAMBDA iden : iden.id \in iden_ids_to_keep)
         IN  Returned([self EXCEPT !.identifications = idens,
                                   !.iden_id_to_iden = IndexMap(idens)])

\* The cascade of the taxon filters: taxa := taxa_to_keep, rebuild
\* taxon_id_to_taxon, identifications := idens_to_keep, rebuild
\* iden_id_to_iden.
ReplaceTaxa(self, taxa_to_keep, idens_to_keep) ==
    [self EXCEPT !.taxa = taxa_to_keep,
                 !.taxon_id_to_taxon = IndexMap(taxa_to_keep),
                 !.identifications = idens_to_keep,
                 !.iden_id_to_iden = IndexMap(idens_to_keep)]

\* non_active_taxa_ids of remove_non_active_taxa
NonActiveTaxaIds(tx) ==
    {tx[i].id : i \in {j \in DOMAIN tx : tx[j].is_active # TRUE}}

RemoveNonActiveTaxa(self) ==
    LET non_active_taxa_ids == NonActiveTaxaIds(self.taxa)
    IN  Returned(ReplaceTaxa(self,
            SelectSeq(self.taxa,
                      LAMBDA taxon : taxon.id \notin non_active_taxa_ids),
            SelectSeq(self.identifications,
                      LAMBDA iden : iden.taxon_id \notin non_active_taxa_ids)))

\* The identifications not filtered.
CreateFlatTaxonomy_NoCascade(self, leaf_rank_level) ==
    LET taxa_to_keep == SelectSeq(self.taxa,
                               LAMBDA taxon : taxon.rank_level = leaf_rank_level)
    IN  Returned([self EXCEPT !.taxa = taxa_to_keep,
                              !.taxon_id_to_taxon = IndexMap(taxa_to_keep)])

\* ">=" where the method has "==".
CreateFlatTaxonomy_AtOrAbove(self, leaf_rank_level) ==
    LET taxa_to_keep == SelectSeq(self.taxa,
                                  LAMBDA taxon : taxon.rank_level >= leaf_rank_level)
    IN  Returned(ReplaceTaxa(self, taxa_to_keep,
            SelectSeq(self.identifications,
                      LAMBDA iden : iden.taxon_id \in IndexMap(taxa_to_keep))))

CreateFlatTaxonomy(self, leaf_rank_level) ==
    LET taxa_to_keep == SelectSeq(self.taxa,
                                  LAMBDA taxon : taxon.rank_level = leaf_rank_level)
    IN  Returned(ReplaceTaxa(self, taxa_to_keep,
            SelectSeq(self.identifications,
                      LAMBDA iden : iden.taxon_id \in IndexMap(taxa_to_keep))))

----------------------------------------------------------------------------
(* The taxonomy rank collapser. *)

\* The record a dict comprehension over self.taxa leaves under taxon_id: the
\* last taxon of the list with that id.
TaxonById(tx, taxon_id) ==
    tx[CHOOSE i \in DOMAIN tx :
           tx[i].id = taxon_id /\ \A j \in (i + 1)..Len(tx) : tx[j].id # taxon_id]

\* ancestry.split('/') raises (AttributeError, caught) when ancestry is None.
SplitFails(ancestry) == ancestry.is_none

Reverse(l) == [i \in 1..Len(l) |-> l[Len(l) + 1 - i]]

\* The loop over ancestry_ids from position i: the id of the first ancestor
\* with a rank level >= leaf_rank_level, "none" when the list ends, and
\* ValueError when int(ancestor_id) meets a token that is no number.
RECURSIVE FindHigherAncestor(_, _, _, _)
FindHigherAncestor(tx, ancestry_ids, i, leaf_rank_level) ==
    IF i > Len(ancestry_ids) THEN [kind |-> "none", id |-> NoneId]
    ELSE IF ancestry_ids[i] = BadToken THEN [kind |-> "ValueError", id |-> NoneId]
    ELSE IF ancestry_ids[i] \in IndexMap(tx)
            /\ TaxonById(tx, ancestry_ids[i]).rank_level >= leaf_rank_level
         THEN [kind |-> "found", id |-> ancestry_ids[i]]
    ELSE FindHigherAncestor(tx, ancestry_ids, i + 1, leaf_rank_level)

\* The walk of one taxon below leaf_rank_level.
AncestorWalk(tx, taxon, leaf_rank_level) ==
    IF SplitFails(taxon.ancestry) THEN [kind |-> "none", id |-> NoneId]
    ELSE FindHigherAncestor(tx, Reverse(taxon.ancestry.parts), 1, leaf_rank_level)

\* "<=" where the method has "<".
TaxaIdsAtLowerRank_OrEqual(tx, leaf_rank_level) ==
    {tx[i].id : i \in {j \in DOMAIN tx : tx[j].rank_level <= leaf_rank_level}}

\* taxa_ids_at_lower_rank
TaxaIdsAtLowerRank(tx, leaf_rank_level) ==
    {tx[i].id : i \in {j \in DOMAIN tx : tx[j].rank_level < leaf_rank_level}}

TaxaIdsNotRemapped(tx, leaf_rank_level) ==
    {tx[i].id : i \in {j \in DOMAIN tx :
        /\ tx[j].rank_level < leaf_rank_level
        /\ AncestorWalk(tx, tx[j], leaf_rank_level).kind = "none"}}

\* The nearest ancestor in the taxa, whatever its rank level.
RemappedTaxonId_AnyRank(tx, taxon_id, leaf_rank_level) ==
    LET taxon == TaxonById(tx, taxon_id)
    IN  IF taxon.rank_level < leaf_rank_level
        THEN AncestorWalk(tx, taxon, 0).id
        ELSE taxon.id

\* taxon_id_to_remapped_taxon[taxon_id]['id'], for a taxon_id the loop mapped.
RemappedTaxonId(tx, taxon_id, leaf_rank_level) ==
    LET taxon == TaxonById(tx, taxon_id)
    IN  IF taxon.rank_level < leaf_rank_level
        THEN AncestorWalk(tx, taxon, leaf_rank_level).id
        ELSE taxon.id

\* The loop "for identification in self.identifications" that rewrites taxon_id
\* in place and removes from the list it iterates; tx is self.taxa as it was
\* when the method began.
RECURSIVE RemapPass(_, _, _, _)
RemapPass(tx, l, i, leaf_rank_level) ==
    IF i > Len(l) THEN l
    ELSE IF l[i].taxon_id \in TaxaIdsAtLowerRank(tx, leaf_rank_level)
         THEN RemapPass(tx,
                        [l EXCEPT ![i].taxon_id =
                            RemappedTaxonId(tx, l[i].taxon_id, leaf_rank_level)],
                        i + 1, leaf_rank_level)
    ELSE IF l[i].taxon_id \notin IndexMap(tx)
         THEN RemapPass(tx, ListRemove(l, l[i]), i + 1, leaf_rank_level)
    ELSE RemapPass(tx, l, i + 1, leaf_rank_level)

\* The part "if len(taxa_ids_not_remapped) > 0": taxa and identifications of
\* the taxa that could not be remapped go; iden_id_to_iden is not rebuilt.
DropNotRemapped(self, leaf_rank_level) ==
    LET taxa_ids_not_remapped == TaxaIdsNotRemapped(self.taxa, leaf_rank_level)
        taxa_to_keep == SelectSeq(self.taxa,
                               LAMBDA taxon : taxon.id \notin taxa_ids_not_remapped)
    IN  IF taxa_ids_not_remapped = {} THEN self
        ELSE [self EXCEPT
                !.taxa = taxa_to_keep,
                !.taxon_id_to_taxon = IndexMap(taxa_to_keep),
                !.identifications =
                    SelectSeq(self.identifications,
                           LAMBDA iden : iden.taxon_id \notin taxa_ids_not_remapped)]

SetRankLevelAsLeafLevel(self, leaf_rank_level) ==
    LET tx == self.taxa
        lower == TaxaIdsAtLowerRank(tx, leaf_rank_level)
    IN  IF \E i \in DOMAIN tx :
               /\ tx[i].rank_level < leaf_rank_level
               /\ AncestorWalk(tx, tx[i], leaf_rank_level).kind = "ValueError"
        THEN Raised(self, "ValueError")
        ELSE LET s1 == DropNotRemapped(self, leaf_rank_level)
                 idens == RemapPass(tx, s1.identifications, 1, leaf_rank_level)
                 taxa_to_keep == SelectSeq(s1.taxa, LAMBDA taxon : taxon.id \notin lower)
             IN  Returned([s1 EXCEPT !.identifications = idens,
                                     !.taxa = taxa_to_keep,
                                     !.taxon_id_to_taxon = IndexMap(taxa_to_keep)])

----------------------------------------------------------------------------
(* The prior estimator and the dataset assembler. *)

\* include_taxa_ids: None, or a collection of taxon ids.
NoTaxaIds == [is_none |-> TRUE, ids |-> {}]
TaxaIds(ids) == [is_none |-> FALSE, ids |-> ids]

\* taxon_id_working_set
WorkingSet(self, include_taxa_ids) ==
    {self.identifications[i].taxon_id : i \in DOMAIN self.identifications}
        \cup (IF include_taxa_ids.is_none THEN {} ELSE include_taxa_ids.ids)

\* self.ob_id_to_ob[observation_id]: the observation the index was built from.
ObById(obs, observation_id) ==
    obs[CHOOSE i \in DOMAIN obs :
            obs[i].id = observation_id /\ \A j \in (i + 1)..Len(obs) : obs[j].id # observation_id]

\* The test "cid in taxon_id_working_set" left out.
CommunityTaxonIds_AnyCounted(self, working_set) ==
    SelectSeq([i \in DOMAIN self.identifications |->
                  ObById(self.observations,
                         self.identifications[i].observation_id).community_taxon_id],
              LAMBDA cid : cid # NoneId)

\* community_taxon_ids: per identification its observation's
\* community_taxon_id, if not None and in the working set.
CommunityTaxonIds(self, working_set) ==
    SelectSeq([i \in DOMAIN self.identifications |->
                  ObById(self.observations,
                         self.identifications[i].observation_id).community_taxon_id],
              LAMBDA cid : cid # NoneId /\ cid \in working_set)

\* The keys of Counter(l) in insertion order: first occurrences.
RECURSIVE CounterKeys(_)
CounterKeys(l) ==
    IF l = <<>> THEN <<>>
    ELSE LET keys == CounterKeys(SubSeq(l, 1, Len(l) - 1))
         IN  IF \E k \in DOMAIN keys : keys[k] = l[Len(l)] THEN keys
             ELSE Append(keys, l[Len(l)])

\* Counter(l)[x]
CountOf(l, x) == Cardinality({i \in DOMAIN l : l[i] = x})

\* self.ob_id_to_ob[iden['observation_id']] raises KeyError.
ObLookupKeyError(self) ==
    \E i \in DOMAIN self.identifications :
        self.identifications[i].observation_id \notin self.ob_id_to_ob

\* The working-set taxa with no count: "if taxon_id not in taxon_counts".
MissingTaxa(self, include_taxa_ids) ==
    LET working_set == WorkingSet(self, include_taxa_ids)
        cids == CommunityTaxonIds(self, working_set)
    IN  working_set \ {cids[i] : i \in DOMAIN cids}

\* The orders "for taxon_id in taxon_id_working_set" can meet the taxa of S in.
IterationOrders(S) ==
    {order \in [1..Cardinality(S) -> S] :
        \A i, j \in DOMAIN order : i # j => order[i] # order[j]}

\* The orders the fill loop of estimate_taxa_priors can run in; it is not
\* reached when the lookup raised.
FillOrders(self, include_taxa_ids) ==
    IF ObLookupKeyError(self) THEN {<<>>}
    ELSE IterationOrders(MissingTaxa(self, include_taxa_ids))

\* c / total
Fraction(c, total) == [num |-> c, den |-> total]

\* taxon_counts[taxon_id] = 1
MissingCount == 1

\* estimate_taxa_priors(include_taxa_ids), the set iteration meeting the
\* taxa without count in the order `fill`: the prior mapping it returns.
EstimateTaxaPriors(self, include_taxa_ids, fill) ==
    IF ObLookupKeyError(self) THEN [raised |-> "KeyError", value |-> <<>>]
    ELSE LET working_set == WorkingSet(self, include_taxa_ids)
             cids == CommunityTaxonIds(self, working_set)
             counted == CounterKeys(cids)
             keys == counted \o fill
             count == [k \in DOMAIN keys |->
                          IF k <= Len(counted) THEN CountOf(cids, keys[k])
                          ELSE MissingCount]
             total == Len(cids) + Len(fill) * MissingCount
         IN  [raised |-> Ok,
              value |-> [k \in DOMAIN keys |->
                            [taxon_id |-> keys[k],
                             prior |-> Fraction(count[k], total)]]]

\* Labels that start at 1.
ClassLabels_FromOne(leaf_taxa_priors) ==
    [taxon_id \in {leaf_taxa_priors[k].taxon_id : k \in DOMAIN leaf_taxa_priors} |->
        CHOOSE k \in DOMAIN leaf_taxa_priors : leaf_taxa_priors[k].taxon_id = taxon_id]

\* taxon_id_to_class_label: enumerate(leaf_taxa_priors)
ClassLabels(leaf_taxa_priors) ==
    [taxon_id \in {leaf_taxa_priors[k].taxon_id : k \in DOMAIN leaf_taxa_priors} |->
        (CHOOSE k \in DOMAIN leaf_taxa_priors :
             leaf_taxa_priors[k].taxon_id = taxon_id) - 1]

\* ob_id_to_urls[ob_id]
UrlsOf(photos, ob_id) == SelectSeq(photos, LAMBDA ob_image : ob_image.observation_id = ob_id)

\* The annotation of an identification of an unlabelled taxon skipped.
UnlabelledTaxon_Skipped(self, taxon_id_to_class_label) == FALSE

\* "else: assert False" is reached: an identification's taxon has no label.
UnlabelledTaxon(self, taxon_id_to_class_label) ==
    \E i \in DOMAIN self.identifications :
        self.identifications[i].taxon_id \notin DOMAIN taxon_id_to_class_label

NoDataset == [created |-> FALSE]

\* create_dataset(leaf_taxa_priors)
CreateDataset(self, leaf_taxa_priors) ==
    LET taxon_id_to_class_label == ClassLabels(leaf_taxa_priors)
        labelled == SelectSeq(self.identifications,
                        LAMBDA iden : iden.taxon_id \in DOMAIN taxon_id_to_class_label)
    IN  IF \E i \in DOMAIN self.observations :
               UrlsOf(self.observation_photos, self.observations[i].id) = <<>>
        THEN [raised |-> "IndexError", value |-> NoDataset]
        ELSE IF UnlabelledTaxon(self, taxon_id_to_class_label)
        THEN [raised |-> "AssertionError", value |-> NoDataset]
        ELSE [raised |-> Ok,
              value |->
                [created |-> TRUE,
                 num_classes |-> Cardinality(DOMAIN taxon_id_to_class_label),
                 inat_taxon_id_to_class_label |-> taxon_id_to_class_label,
                 global_class_priors |->
                     [k \in DOMAIN leaf_taxa_priors |-> leaf_taxa_priors[k].prior],
                 workers |-> {self.identifications[i].user_id :
                                 i \in DOMAIN self.identifications},
                 images |-> [ob_id \in IndexMap(self.observations) |->
                                UrlsOf(self.observation_photos, ob_id)],
                 annos |-> [i \in DOMAIN labelled |->
                              [label |-> taxon_id_to_class_label[labelled[i].taxon_id],
                               image_id |-> labelled[i].observation_id,
                               worker_id |-> labelled[i].user_id,
                               id |-> labelled[i].id]]]]

----------------------------------------------------------------------------
(* The archives the stores are built from. *)

Users == {1, 2}

Ob(id, community_taxon_id) == [id |-> id, community_taxon_id |-> community_taxon_id]

Photo(observation_id) == [observation_id |-> observation_id]

Ancestry(parts) == [is_none |-> FALSE, parts |-> parts]
NoAncestry == [is_none |-> TRUE, parts |-> <<>>]

Taxon(id, rank_level, ancestry, is_active) ==
    [id |-> id, rank_level |-> rank_level, ancestry |-> ancestry,
     is_active |-> is_active]

CreatedAt(fmt, t) == [fmt |-> fmt, t |-> t]

Iden(id, observation_id, user_id, taxon_id, created_at, current) ==
    [id |-> id, observation_id |-> observation_id, user_id |-> user_id,
     taxon_id |-> taxon_id, created_at |-> created_at, current |-> current]

Archive(obs, photos, idens, tx) ==
    [observations |-> obs, observation_photos |-> photos,
     identifications |-> idens, taxa |-> tx]

\* The lists of at most MaxIdens identification shapes.
ShapeLists(Shapes) == UNION {[1..k -> Shapes] : k \in 0..MaxIdens}

\* family (id 1) > genus (id 2) > species (id 3), as in the data format notes.
Family == Taxon(1, 30, Ancestry(<<BadToken>>), TRUE)
Genus == Taxon(2, 20, Ancestry(<<1>>), TRUE)
Species(ancestry, is_active) == Taxon(3, 10, ancestry, is_active)

TwoObs == <<Ob(1, 1), Ob(2, 2)>>
TwoTaxa == <<Taxon(1, 10, Ancestry(<<2>>), TRUE), Genus>>

\* Archives with dangling references (observation 3 and taxon 3 are in no
\* collection) and, by variant, a repeated identification id, a repeated
\* observation id, or a taxon whose rank level is no number.
DanglingArchives ==
    {Archive(IF a.variant = "dup_ob" THEN TwoObs \o <<Ob(2, 2)>> ELSE TwoObs,
             <<Photo(1)>>,
             [i \in DOMAIN a.shapes |->
                 Iden(IF a.variant = "dup_iden" /\ i = Len(a.shapes) THEN 1 ELSE i,
                      a.shapes[i].ob, i, a.shapes[i].taxon,
                      CreatedAt(SecondFormat, i), TRUE)],
             IF a.variant = "bad_taxon"
             THEN TwoTaxa \o <<Taxon(3, NonNumericRank, NoAncestry, TRUE)>>
             ELSE TwoTaxa) :
        a \in [shapes : ShapeLists([ob : 1..3, taxon : 1..3]),
               variant : {"plain", "dup_iden", "dup_ob", "bad_taxon"}]}

\* The (observation, user) pairs of the identifications below.
ObUserPairs == {<<1, 1>>, <<1, 2>>, <<2, 1>>}

\* Archives whose identifications differ in user and in the current flag.
CurrentArchives ==
    {Archive(TwoObs, a.photos,
             [i \in DOMAIN a.shapes |->
                 Iden(i, a.shapes[i].by[1], a.shapes[i].by[2], a.shapes[i].by[1],
                      CreatedAt(SecondFormat, i), a.shapes[i].current)],
             TwoTaxa) :
        a \in [shapes : ShapeLists([by : ObUserPairs, current : BOOLEAN]),
               photos : {<<Photo(1), Photo(2)>>, <<Photo(2)>>}]}

\* Archives whose identifications differ in user and in created_at.
TimeArchives ==
    {Archive(TwoObs, <<Photo(1), Photo(2)>>,
             [i \in DOMAIN shapes |->
                 Iden(i, shapes[i].by[1], shapes[i].by[2], shapes[i].by[1],
                      shapes[i].created_at, TRUE)],
             TwoTaxa) :
        shapes \in ShapeLists([by : ObUserPairs,
                               created_at : {CreatedAt(FirstFormat, 1),
                                             CreatedAt(SecondFormat, 2),
                                             CreatedAt("%d/%m/%Y", 1)}])}

\* The species of the taxonomy archives: its ancestry and activity.
SpeciesVariants ==
    {Species(Ancestry(<<1, 2>>), TRUE), Species(Ancestry(<<1, 2>>), FALSE),
     Species(Ancestry(<<BadToken, 2>>), TRUE), Species(Ancestry(<<4>>), TRUE),
     Species(Ancestry(<<BadToken>>), TRUE), Species(NoAncestry, TRUE)}

\* Archives over the three-level taxonomy; the genus is the community taxon
\* of an observation or of none.
TaxonomyArchives ==
    {Archive(<<Ob(1, 3), Ob(2, a.genus_ob), Ob(3, 1)>>,
             <<Photo(1), Photo(2), Photo(3)>>,
             [i \in DOMAIN a.shapes |->
                 Iden(i, 1 + (i % 2), i, a.shapes[i],
                      CreatedAt(SecondFormat, i), TRUE)],
             <<Family, Genus, a.species>>) :
        a \in [shapes : ShapeLists(1..3), genus_ob : {2, NoneId},
               species : SpeciesVariants]}

\* Archives whose identifications, all of observation 1, name the genus or
\* taxon 3, which is in no collection.
UnknownTaxonArchives ==
    {Archive(TwoObs, <<Photo(1)>>,
             [i \in DOMAIN shapes |->
                 Iden(i, 1, i, shapes[i], CreatedAt(SecondFormat, i), TRUE)],
             TwoTaxa) :
        shapes \in UNION {[1..k -> {2, 3}] : k \in 0..MaxRun}}

Archives == DanglingArchives \cup CurrentArchives \cup TimeArchives
                \cup TaxonomyArchives \cup UnknownTaxonArchives

\* The (observation, taxon) pairs of the identifications below.
ObTaxonPairs == {<<1, 1>>, <<1, 2>>, <<2, 2>>, <<3, 1>>, <<4, 1>>}

\* Archives for the assembler: observation 3 has no community taxon and no
\* photo, observation 4 is in no collection.
AssemblerArchives ==
    {Archive(<<Ob(1, 1), Ob(2, 2), Ob(3, NoneId)>>,
             <<Photo(1), Photo(2), Photo(1)>>,
             [i \in DOMAIN shapes |->
                 Iden(i, shapes[i][1], i, shapes[i][2],
                      CreatedAt(SecondFormat, i), TRUE)],
             TwoTaxa) :
        shapes \in UNION {[1..k -> ObTaxonPairs] : k \in 0..MaxAnnos}}

\* The arguments the methods are called with.
LeafRankLevels == {20, 30}
MinIdentifications == {1, 2}
MaxObservations == {NoneArg, 1, 2}
KeepIndexes == {0, 0 - 1}
ObIdSets == SUBSET {1, 2}
IncludeTaxaIds == {NoTaxaIds, TaxaIds({3}), TaxaIds({1, 2})}

\* Prior mappings estimated on a sibling store (main hands the priors of
\* ob_inat to worker_inat.create_dataset).
SiblingPriors ==
    {<<[taxon_id |-> 2, prior |-> Fraction(1, 1)]>>,
     <<[taxon_id |-> 1, prior |-> Fraction(2, 3)],
       [taxon_id |-> 2, prior |-> Fraction(1, 3)]>>,
     <<[taxon_id |-> 2, prior |-> Fraction(1, 3)],
       [taxon_id |-> 1, prior |-> Fraction(2, 3)]>>}

----------------------------------------------------------------------------
(* The state machine. *)

Self == Store(observations, observation_photos, identifications, taxa, users,
              taxon_id_to_taxon, ob_id_to_ob, iden_id_to_iden)

Collections == [observations |-> observations,
                observation_photos |-> observation_photos,
                identifications |-> identifications, taxa |-> taxa,
                taxon_id_to_taxon |-> taxon_id_to_taxon,
                ob_id_to_ob |-> ob_id_to_ob,
                iden_id_to_iden |-> iden_id_to_iden]

Call(op, n, ids) == [op |-> op, n |-> n, ids |-> ids]

NoPriors == [estimated |-> FALSE, items |-> <<>>]

\* A store used on its own, outside main().
NotInMain == [store |-> "none"]

\* The archive a is read, no store is built yet.
Read(a) ==
    /\ observations = a.observations
    /\ observation_photos = a.observation_photos
    /\ identifications = a.identifications
    /\ taxa = a.taxa
    /\ users = Users
    /\ taxon_id_to_taxon = {}
    /\ ob_id_to_ob = {}
    /\ iden_id_to_iden = {}
    /\ taxa_priors = NoPriors
    /\ dataset = NoDataset
    /\ status = "raw"
    /\ call = Call("load", 0, {})
    /\ pre = Collections

Load(a) == Read(a) /\ main = NotInMain

Init == \E a \in Archives : Load(a)

\* The method op(n, ids) ran on self and left r.
RanOnSelf(op, n, ids, r) ==
    /\ observations' = r.self.observations
    /\ observation_photos' = r.self.observation_photos
    /\ identifications' = r.self.identifications
    /\ taxa' = r.self.taxa
    /\ users' = r.self.users
    /\ taxon_id_to_taxon' = r.self.taxon_id_to_taxon
    /\ ob_id_to_ob' = r.self.ob_id_to_ob
    /\ iden_id_to_iden' = r.self.iden_id_to_iden
    /\ UNCHANGED <<taxa_priors, dataset>>
    /\ status' = r.raised
    /\ call' = Call(op, n, ids)
    /\ pre' = Collections

Ran(op, n, ids, r) == RanOnSelf(op, n, ids, r) /\ UNCHANGED main

__init__ ==
    /\ status = "raw"
    /\ Ran("__init__", 0, {},
           Construct(observations, observation_photos, identifications, taxa, users))

set_rank_level_as_leaf_level ==
    /\ status = Ok
    /\ \E leaf_rank_level \in LeafRankLevels :
           Ran("set_rank_level_as_leaf_level", leaf_rank_level, {},
               SetRankLevelAsLeafLevel(Self, leaf_rank_level))

create_flat_taxonomy ==
    /\ status = Ok
    /\ \E leaf_rank_level \in LeafRankLevels :
           Ran("create_flat_taxonomy", leaf_rank_level, {},
               CreateFlatTaxonomy(Self, leaf_rank_level))

remove_non_active_taxa ==
    /\ status = Ok
    /\ Ran("remove_non_active_taxa", 0, {}, RemoveNonActiveTaxa(Self))

keep_specific_observations ==
    /\ status = Ok
    /\ \E observation_ids_to_keep \in ObIdSets :
           Ran("keep_specific_observations", 0, observation_ids_to_keep,
               KeepSpecificObservations(Self, observation_ids_to_keep))

keep_one_identification_per_user_per_observation ==
    /\ status = Ok
    /\ \E keep_index \in KeepIndexes :
           Ran("keep_one_identification_per_user_per_observation", keep_index, {},
               KeepOneIdentificationPerUserPerObservation(Self, keep_index))

keep_current_identifications ==
    /\ status = Ok
    /\ Ran("keep_current_identifications", 0, {}, KeepCurrentIdentifications(Self))

remove_obs_with_no_photos ==
    /\ status = Ok
    /\ Ran("remove_obs_with_no_photos", 0, {}, RemoveObsWithNoPhotos(Self))

enforce_min_identifications ==
    /\ status = Ok
    /\ \E min_identifications \in MinIdentifications :
           Ran("enforce_min_identifications", min_identifications, {},
               EnforceMinIdentifications(Self, min_identifications))

enforce_max_observations ==
    /\ status = Ok
    /\ \E max_observations \in MaxObservations :
       \E sample \in Samples(Self, max_observations) :
           Ran("enforce_max_observations", max_observations, {},
               EnforceMaxObservations(Self, max_observations, sample))

Next ==
    \/ __init__
    \/ set_rank_level_as_leaf_level
    \/ create_flat_taxonomy
    \/ remove_non_active_taxa
    \/ keep_specific_observations
    \/ keep_one_identification_per_user_per_observation
    \/ keep_current_identifications
    \/ remove_obs_with_no_photos
    \/ enforce_min_identifications
    \/ enforce_max_observations

Spec == Init /\ [][Next]_vars

\* The method op(n, ids) ran on self, which it does not change, and raised.
AnsweredOnSelf(op, n, ids, raised) ==
    /\ UNCHANGED <<observations, observation_photos, identifications, taxa, users,
                   taxon_id_to_taxon, ob_id_to_ob, iden_id_to_iden>>
    /\ status' = raised
    /\ call' = Call(op, n, ids)
    /\ pre' = Collections

Answered(op, n, ids, raised) ==
    AnsweredOnSelf(op, n, ids, raised) /\ UNCHANGED main

\* taxa_priors = inat.estimate_taxa_priors(include_taxa_ids)
estimate_taxa_priors ==
    /\ status = Ok
    /\ \E include_taxa_ids \in IncludeTaxaIds :
       \E fill \in FillOrders(Self, include_taxa_ids) :
           LET r == EstimateTaxaPriors(Self, include_taxa_ids, fill)
           IN  /\ taxa_priors' = IF r.raised = Ok
                                 THEN [estimated |-> TRUE, items |-> r.value]
                                 ELSE taxa_priors
               /\ UNCHANGED dataset
               /\ Answered("estimate_taxa_priors",
                           IF include_taxa_ids.is_none THEN NoneArg ELSE 0,
                           include_taxa_ids.ids, r.raised)

\* The mappings create_dataset is handed: the priors estimated on this store
\* or those of a sibling store.
PriorArguments ==
    (IF taxa_priors.estimated THEN {taxa_priors.items} ELSE {}) \cup SiblingPriors

\* dataset = inat.create_dataset(leaf_taxa_priors); call.ids is the argument.
create_dataset ==
    /\ status = Ok
    /\ \E leaf_taxa_priors \in PriorArguments :
           LET r == CreateDataset(Self, leaf_taxa_priors)
           IN  /\ dataset' = r.value
               /\ UNCHANGED taxa_priors
               /\ Answered("create_dataset", 0, leaf_taxa_priors, r.raised)

\* main runs the assembler on a store once its pipeline is through.
PipelineThrough == taxa_priors.estimated \/ dataset.created

InitAssembler == \E a \in AssemblerArchives : Load(a)

NextAssembler ==
    \/ ~PipelineThrough /\ __init__
    \/ ~PipelineThrough /\ set_rank_level_as_leaf_level
    \/ ~PipelineThrough /\ create_flat_taxonomy
    \/ ~PipelineThrough /\ remove_non_active_taxa
    \/ ~PipelineThrough /\ keep_specific_observations
    \/ ~PipelineThrough /\ keep_one_identification_per_user_per_observation
    \/ ~PipelineThrough /\ keep_current_identifications
    \/ ~PipelineThrough /\ remove_obs_with_no_photos
    \/ ~PipelineThrough /\ enforce_min_identifications
    \/ ~PipelineThrough /\ enforce_max_observations
    \/ estimate_taxa_priors
    \/ create_dataset

SpecAssembler == InitAssembler /\ [][NextAssembler]_vars

----------------------------------------------------------------------------
(* main(): the observation-label store ob_inat and the worker-skill store  *)
(* worker_inat, built one after the other from the same loaded lists.      *)

\* leaf_rank_level=10 of main
MainLeafRankLevel == 10

\* species (id 3) > subspecies (id 4); taxon 5 is a second species of the
\* genus, taxon 6 is not active.
Subspecies == Taxon(4, 5, Ancestry(<<1, 2, 3>>), TRUE)
MainTaxa == <<Species(Ancestry(<<1, 2>>), TRUE), Subspecies,
              Taxon(5, 10, Ancestry(<<1, 2>>), TRUE),
              Taxon(6, 10, Ancestry(<<1, 2>>), FALSE)>>

\* taxa = [d for d in taxa if (d['is_active'] == True and d['ancestry'] != None)]
ActiveWithAncestry(tx) ==
    SelectSeq(tx, LAMBDA d : d.is_active = TRUE /\ ~d.ancestry.is_none)

\* The identifications of an archive of main, from their shapes.
MainIdens(shapes) ==
    [i \in DOMAIN shapes |->
        Iden(i, shapes[i].by[1], shapes[i].by[2], shapes[i].taxon,
             CreatedAt(SecondFormat, i), shapes[i].current)]

\* What the identifications of main's archives differ in: observation and
\* user, taxon (taxon 6 is not active) and current flag.
MainShapes ==
    [by : ObUserPairs, taxon : {3, 4, 5}, current : BOOLEAN]
        \cup [by : ObUserPairs, taxon : {6}, current : {TRUE}]

\* Archives of at most MaxIdens identifications: the subspecies is the
\* community taxon of observation 2 or of none, observation 3 has no
\* identification and no photo.
MainArchives ==
    {Archive(<<Ob(1, 3), Ob(2, a.subspecies_ob), Ob(3, 5)>>,
             <<Photo(1), Photo(2)>>, MainIdens(a.shapes), MainTaxa) :
        a \in [shapes : ShapeLists(MainShapes), subspecies_ob : {4, NoneId}]}

\* Archives with two identifications by two users on each of two
\* observations.
TwoByTwoArchives ==
    {Archive(<<Ob(1, 3), Ob(2, 4), Ob(3, 5)>>, <<Photo(1), Photo(2)>>,
             MainIdens([i \in 1..4 |->
                 [by |-> <<(i + 1) \div 2, 1 + (i % 2)>>, taxon |-> shapes[i].taxon,
                  current |-> shapes[i].current]]),
             MainTaxa) :
        shapes \in [1..4 -> [taxon : {3, 4, 5}, current : BOOLEAN]]}

\* The archive and args.max_observations of a run of main; an archive of
\* which less than two observations can have two identifications is run
\* without a maximum.
MainInputs ==
    [archive : MainArchives, max_observations : {NoneArg}]
        \cup [archive : TwoByTwoArchives, max_observations : {NoneArg, 1}]

NoStore == Store(<<>>, <<>>, <<>>, <<>>, <<>>, {}, {}, {})

\* The dict of each identification of l as the dicts of idens are now: a
\* dict of idens is the dict of l with the same id.
Rewritten(l, idens) ==
    [i \in DOMAIN l |->
        IF \E j \in DOMAIN idens : idens[j].id = l[i].id
        THEN idens[CHOOSE j \in DOMAIN idens : idens[j].id = l[i].id]
        ELSE l[i]]

\* self.identifications = idens_to_keep in _sanity_check_data: the store has
\* a list of its own, the loop that removes runs on it.
SanityReplacesList(self) == Len(SanityTaxaToKeep(self)) # Len(self.taxa)

\* self.identifications = idens_to_keep in set_rank_level_as_leaf_level
RemapReplacesList(self, leaf_rank_level) ==
    TaxaIdsNotRemapped(self.taxa, leaf_rank_level) # {}

\* main has loaded the archive a (lines 452-472), no store is built yet.
InitMain ==
    \E input \in MainInputs :
        LET a == [input.archive EXCEPT !.taxa = ActiveWithAncestry(@)]
        IN  /\ Read(a)
            /\ main = [store |-> "ob_inat",
                   archive |-> a,
                   identifications |-> a.identifications,
                   shared |-> FALSE,
                   max_observations |-> input.max_observations,
                   ob_inat |-> NoStore,
                   ob_label_pred_dataset |-> NoDataset]

\* The statement of main that ran last on the store at work.
MainAt(store, op) == main.store = store /\ call.op = op /\ status = Ok

\* iNaturalistDataset(observations, observation_photos, identifications,
\* taxa, users) on the lists of main: the store at work is `store`, its
\* identifications are the list of main unless the sanity check replaced it.
MainConstruct(store, ob_inat) ==
    LET a == main.archive
        raw == Store(a.observations, a.observation_photos, main.identifications,
                     a.taxa, users, IndexMap(a.taxa), IndexMap(a.observations),
                     IndexMap(main.identifications))
        r == SanityCheckData(raw)
    IN  /\ RanOnSelf("__init__", 0, {}, r)
        /\ main' = [main EXCEPT
               !.store = store,
               !.ob_inat = ob_inat,
               !.shared = ~SanityReplacesList(raw),
               !.identifications = IF SanityReplacesList(raw) THEN @
                                   ELSE r.self.identifications]

\* ob_inat = iNaturalistDataset(...)
main_ob_inat ==
    /\ main.store = "ob_inat"
    /\ status = "raw"
    /\ MainConstruct("ob_inat", NoStore)

\* worker_inat = iNaturalistDataset(...), ob_inat being through its pipeline.
main_worker_inat ==
    /\ MainAt("ob_inat", "enforce_max_observations")
    /\ MainConstruct("worker_inat", Self)

\* set_rank_level_as_leaf_level(leaf_rank_level=10): the taxon_id it writes
\* is written in the dicts every list holds; the identifications it removes
\* leave the list of main when the store still works on that list.
main_set_rank_level_as_leaf_level ==
    /\ MainAt(main.store, "__init__")
    /\ LET r == SetRankLevelAsLeafLevel(Self, MainLeafRankLevel)
           replaced == r.raised = Ok /\ RemapReplacesList(Self, MainLeafRankLevel)
       IN  /\ RanOnSelf("set_rank_level_as_leaf_level", MainLeafRankLevel, {}, r)
           /\ main' = [main EXCEPT
                  !.shared = @ /\ ~replaced,
                  !.identifications =
                      IF main.shared /\ ~replaced THEN r.self.identifications
                      ELSE Rewritten(@, r.self.identifications),
                  !.ob_inat = [@ EXCEPT !.identifications =
                                   Rewritten(@, r.self.identifications)]]

\* A method that builds the lists it leaves: the store no longer works on
\* the list of main.
MainRan(op, n, ids, r) ==
    /\ RanOnSelf(op, n, ids, r)
    /\ main' = [main EXCEPT !.shared = FALSE]

main_create_flat_taxonomy ==
    /\ MainAt(main.store, "set_rank_level_as_leaf_level")
    /\ MainRan("create_flat_taxonomy", MainLeafRankLevel, {},
               CreateFlatTaxonomy(Self, MainLeafRankLevel))

main_remove_non_active_taxa ==
    /\ MainAt(main.store, "create_flat_taxonomy")
    /\ MainRan("remove_non_active_taxa", 0, {}, RemoveNonActiveTaxa(Self))

main_keep_current_identifications ==
    /\ MainAt("ob_inat", "remove_non_active_taxa")
    /\ MainRan("keep_current_identifications", 0, {}, KeepCurrentIdentifications(Self))

\* ob_ids = [ob['id'] for ob in ob_inat.observations]
\* worker_inat.keep_specific_observations(ob_ids)
main_keep_specific_observations ==
    /\ MainAt("worker_inat", "remove_non_active_taxa")
    /\ LET ob_ids == IndexMap(main.ob_inat.observations)
       IN  MainRan("keep_specific_observations", 0, ob_ids,
                   KeepSpecificObservations(Self, ob_ids))

main_keep_one_identification_per_user_per_observation ==
    /\ MainAt("worker_inat", "keep_specific_observations")
    /\ MainRan("keep_one_identification_per_user_per_observation", 0, {},
               KeepOneIdentificationPerUserPerObservation(Self, 0))

main_remove_obs_with_no_photos ==
    /\ \/ MainAt("ob_inat", "keep_current_identifications")
       \/ MainAt("worker_inat", "keep_one_identification_per_user_per_observation")
    /\ MainRan("remove_obs_with_no_photos", 0, {}, RemoveObsWithNoPhotos(Self))

main_enforce_min_identifications ==
    /\ MainAt(main.store, "remove_obs_with_no_photos")
    /\ MainRan("enforce_min_identifications", 2, {},
               EnforceMinIdentifications(Self, 2))

main_enforce_max_observations ==
    /\ MainAt(main.store, "enforce_min_identifications")
    /\ \E sample \in Samples(Self, main.max_observations) :
           MainRan("enforce_max_observations", main.max_observations, {},
                   EnforceMaxObservations(Self, main.max_observations, sample))

\* The taxon ids of ob_inat alone.
TaxonIdWorkingSet_ObInatAlone(ob_inat, worker_inat) ==
    {ob_inat.identifications[i].taxon_id : i \in DOMAIN ob_inat.identifications}

\* taxon_id_working_set = set([iden['taxon_id'] for iden in
\*     ob_inat.identifications + worker_inat.identifications])
TaxonIdWorkingSet(ob_inat, worker_inat) ==
    {ob_inat.identifications[i].taxon_id : i \in DOMAIN ob_inat.identifications}
    \cup {worker_inat.identifications[i].taxon_id :
              i \in DOMAIN worker_inat.identifications}

\* taxa_priors = ob_inat.estimate_taxa_priors(include_taxa_ids=taxon_id_working_set)
main_estimate_taxa_priors ==
    /\ MainAt("worker_inat", "enforce_max_observations")
    /\ LET include_taxa_ids == TaxaIds(TaxonIdWorkingSet(main.ob_inat, Self))
       IN  \E fill \in FillOrders(main.ob_inat, include_taxa_ids) :
               LET r == EstimateTaxaPriors(main.ob_inat, include_taxa_ids, fill)
               IN  /\ taxa_priors' = IF r.raised = Ok
                                     THEN [estimated |-> TRUE, items |-> r.value]
                                     ELSE taxa_priors
                   /\ UNCHANGED <<dataset, main>>
                   /\ AnsweredOnSelf("estimate_taxa_priors", 0,
                                     include_taxa_ids.ids, r.raised)

\* ob_label_pred_dataset = ob_inat.create_dataset(taxa_priors)
main_ob_label_pred_dataset ==
    /\ MainAt("worker_inat", "estimate_taxa_priors")
    /\ LET r == CreateDataset(main.ob_inat, taxa_priors.items)
       IN  /\ main' = [main EXCEPT !.ob_label_pred_dataset = r.value]
           /\ UNCHANGED <<taxa_priors, dataset>>
           /\ AnsweredOnSelf("create_dataset", 0, taxa_priors.items, r.raised)

\* worker_skill_pred_dataset = worker_inat.create_dataset(taxa_priors)
main_worker_skill_pred_dataset ==
    /\ MainAt("worker_inat", "create_dataset")
    /\ main.ob_label_pred_dataset.created
    /\ ~dataset.created
    /\ LET r == CreateDataset(Self, taxa_priors.items)
       IN  /\ dataset' = r.value
           /\ UNCHANGED <<taxa_priors, main>>
           /\ AnsweredOnSelf("create_dataset", 0, taxa_priors.items, r.raised)

NextMain ==
    \/ main_ob_inat
    \/ main_worker_inat
    \/ main_set_rank_level_as_leaf_level
    \/ main_create_flat_taxonomy
    \/ main_remove_non_active_taxa
    \/ main_keep_current_identifications
    \/ main_keep_specific_observations
    \/ main_keep_one_identification_per_user_per_observation
    \/ main_remove_obs_with_no_photos
    \/ main_enforce_min_identifications
    \/ main_enforce_max_observations
    \/ main_estimate_taxa_priors
    \/ main_ob_label_pred_dataset
    \/ main_worker_skill_pred_dataset

SpecMain == InitMain /\ [][NextMain]_vars

----------------------------------------------------------------------------
(* Vocabulary of the properties. *)

PipelineOps ==
    {"set_rank_level_as_leaf_level", "create_flat_taxonomy",
     "remove_non_active_taxa", "keep_specific_observations",
     "keep_one_identification_per_user_per_observation",
     "keep_current_identifications", "remove_obs_with_no_photos",
     "enforce_min_identifications", "enforce_max_observations"}

IdsIn(l) == {l[i].id : i \in DOMAIN l}

\* Every identification of idens names an observation of obs and a taxon of tx.
Resolves(idens, obs, tx) ==
    \A i \in DOMAIN idens :
        /\ idens[i].observation_id \in IdsIn(obs)
        /\ idens[i].taxon_id \in IdsIn(tx)

HasRepeatedId(l) == \E i, j \in DOMAIN l : i < j /\ l[i].id = l[j].id

\* The elements of l whose id is in ids, in the order of l.
Restrict(l, ids) == SelectSeq(l, LAMBDA x : x.id \in ids)

\* The positions of idens on the same observation and by the same user as i.
GroupOf(idens, i) ==
    {j \in DOMAIN idens : /\ idens[j].observation_id = idens[i].observation_id
                          /\ idens[j].user_id = idens[i].user_id}

AllCurrent(idens) == \A i \in DOMAIN idens : idens[i].current = TRUE

DistinctUsersPerOb(idens) ==
    \A i, j \in DOMAIN idens : i # j => GroupOf(idens, i) # GroupOf(idens, j)

NumIdensOf(idens, ob_id) ==
    Cardinality({i \in DOMAIN idens : idens[i].observation_id = ob_id})

Unparsable(created_at) == created_at.fmt \notin {FirstFormat, SecondFormat}

----------------------------------------------------------------------------
(* The claims. *)

\* C1: a pipeline operation that starts from a store whose identifications
\* all resolve and returns normally leaves a store whose identifications all
\* resolve (observation_id in observations, taxon_id in taxa).
C1_ReferentialIntegrityPreserved ==
    (/\ call.op \in PipelineOps
     /\ status = Ok
     /\ Resolves(pre.identifications, pre.observations, pre.taxa))
    => Resolves(identifications, observations, taxa)

\* set_rank_level_as_leaf_level rewrote an identification and removed taxa,
\* starting from a resolving store.
C1_Witness ==
    /\ call.op = "set_rank_level_as_leaf_level"
    /\ status = Ok
    /\ Resolves(pre.identifications, pre.observations, pre.taxa)
    /\ Len(taxa) < Len(pre.taxa)
    /\ \E i \in DOMAIN identifications : \E j \in DOMAIN pre.identifications :
           /\ identifications[i].id = pre.identifications[j].id
           /\ identifications[i].taxon_id # pre.identifications[j].taxon_id

\* C2: when __init__ returns normally, every identification of the store
\* resolves.
C2_NoDanglingAfterConstruction ==
    (call.op = "__init__" /\ status = Ok)
    => Resolves(identifications, observations, taxa)

\* C3: after construction and after every pipeline operation, the key set of
\* each index map is the id set of its collection.
C3_IndexMapsCurrent ==
    (call.op \in PipelineOps \cup {"__init__"} /\ status = Ok)
    => /\ taxon_id_to_taxon = IdsIn(taxa)
       /\ ob_id_to_ob = IdsIn(observations)
       /\ iden_id_to_iden = IdsIn(identifications)

\* C4: __init__ never returns normally with a repeated identification id or
\* observation id; when the dangling pass ends and leaves a repeated id,
\* __init__ raises AssertionError and the repeated records are still there.
C4_DuplicateIdsAreFatal ==
    call.op = "__init__"
    => /\ status = Ok => /\ ~HasRepeatedId(identifications)
                         /\ ~HasRepeatedId(observations)
       /\ (/\ status # "ValueError"
           /\ HasRepeatedId(identifications) \/ HasRepeatedId(observations))
          => /\ status = "AssertionError"
             /\ observations = pre.observations
             /\ \A i \in DOMAIN identifications :
                    \E j \in DOMAIN pre.identifications :
                        identifications[i] = pre.identifications[j]

\* __init__ stopped on a repeated identification id.
C4_Witness ==
    /\ call.op = "__init__"
    /\ status = "AssertionError"
    /\ HasRepeatedId(identifications)
    /\ ~HasRepeatedId(observations)

\* C5: keep_current_identifications does not return normally when an
\* observation of the store has two current identifications by one user, and
\* both are still in the list.
C5_DuplicateCurrentIsFatal ==
    call.op = "keep_current_identifications"
    => \A i, j \in DOMAIN pre.identifications :
           (/\ i < j
            /\ j \in GroupOf(pre.identifications, i)
            /\ pre.identifications[i].observation_id \in IdsIn(pre.observations)
            /\ pre.identifications[i].current = TRUE
            /\ pre.identifications[j].current = TRUE)
           => /\ status \in {"AssertionError", "KeyError"}
              /\ pre.identifications[i].id \in IdsIn(identifications)
              /\ pre.identifications[j].id \in IdsIn(identifications)

\* keep_current_identifications hit its assertion.
C5_Witness ==
    /\ call.op = "keep_current_identifications"
    /\ status = "AssertionError"
    /\ \E i \in DOMAIN identifications : Cardinality(GroupOf(identifications, i)) > 1

\* C6: when keep_current_identifications returns normally the list is the
\* current identifications of the list before, no two on one observation by
\* one user; and no pipeline operation breaks either fact once it holds.
C6_CurrentOnlyAndKept ==
    /\ (call.op = "keep_current_identifications" /\ status = Ok)
       => /\ identifications =
                SelectSeq(pre.identifications, LAMBDA iden : iden.current = TRUE)
          /\ DistinctUsersPerOb(identifications)
    /\ (/\ call.op \in PipelineOps
        /\ AllCurrent(pre.identifications)
        /\ DistinctUsersPerOb(pre.identifications))
       => /\ AllCurrent(identifications)
          /\ DistinctUsersPerOb(identifications)

\* keep_current_identifications returned normally and removed a non-current
\* identification that shared observation and user with a current one.
C6_Witness ==
    /\ call.op = "keep_current_identifications"
    /\ status = Ok
    /\ identifications # <<>>
    /\ ~DistinctUsersPerOb(pre.identifications)
    /\ Len(identifications) < Len(pre.identifications)

\* The time of the identification at position i of idens.
TimeAt(idens, i) == idens[i].created_at.t

\* C7: keep_one_identification_per_user_per_observation(keep_index) leaves,
\* of every (observation, user) group of the list before, exactly one
\* identification, unchanged and in list order: one of minimum time for
\* keep_index 0, of maximum time for keep_index -1.
C7_OnePerUserPerObservation ==
    (call.op = "keep_one_identification_per_user_per_observation" /\ status = Ok)
    => /\ identifications = Restrict(pre.identifications, IdsIn(identifications))
       /\ \A i \in DOMAIN pre.identifications :
            LET group == GroupOf(pre.identifications, i)
                kept == {j \in group :
                            pre.identifications[j].id \in IdsIn(identifications)}
            IN  /\ Cardinality(kept) = 1
                /\ \A k \in kept : \A j \in group :
                       IF call.n = 0
                       THEN TimeAt(pre.identifications, k)
                                <= TimeAt(pre.identifications, j)
                       ELSE TimeAt(pre.identifications, k)
                                >= TimeAt(pre.identifications, j)

\* keep_index 0 kept, of a group whose earliest identification is not its
\* first in the list, the earliest; an identification of another group stayed.
C7_Witness ==
    /\ call.op = "keep_one_identification_per_user_per_observation"
    /\ call.n = 0
    /\ status = Ok
    /\ Len(identifications) = 2
    /\ \E i, j \in DOMAIN pre.identifications :
           /\ i < j
           /\ j \in GroupOf(pre.identifications, i)
           /\ TimeAt(pre.identifications, j) < TimeAt(pre.identifications, i)
           /\ pre.identifications[j].id \in IdsIn(identifications)

\* C8 as claimed: an identification whose created_at matches neither format
\* is dropped and keep_one_identification_per_user_per_observation returns
\* normally.
C8_Original_BadTimestampDropped ==
    (/\ call.op = "keep_one_identification_per_user_per_observation"
     /\ \E i \in DOMAIN pre.identifications :
            Unparsable(pre.identifications[i].created_at))
    => /\ status = Ok
       /\ \A i \in DOMAIN identifications :
              ~Unparsable(identifications[i].created_at)

\* C8 as amended: the method raises (the ValueError of the second strptime,
\* when every identification's observation is in the store) and leaves the
\* identifications as they were.
C8_BadTimestampRaises ==
    (/\ call.op = "keep_one_identification_per_user_per_observation"
     /\ \E i \in DOMAIN pre.identifications :
            Unparsable(pre.identifications[i].created_at))
    => /\ status \in {"ValueError", "KeyError"}
       /\ (\A i \in DOMAIN pre.identifications :
               pre.identifications[i].observation_id \in IdsIn(pre.observations))
          => status = "ValueError"
       /\ identifications = pre.identifications
       /\ iden_id_to_iden = IdsIn(pre.identifications)

\* The method raised ValueError on a list that holds a parsable and an
\* unparsable created_at.
C8_Witness ==
    /\ call.op = "keep_one_identification_per_user_per_observation"
    /\ status = "ValueError"
    /\ \E i, j \in DOMAIN identifications :
           /\ Unparsable(identifications[i].created_at)
           /\ ~Unparsable(identifications[j].created_at)

\* C9: on every store the program reaches, a second remove_non_active_taxa,
\* remove_obs_with_no_photos or enforce_min_identifications(m) after a first
\* one that returned changes nothing.
C9_Idempotent ==
    status = Ok
    => /\ LET r == RemoveNonActiveTaxa(Self)
          IN  r.raised = Ok => RemoveNonActiveTaxa(r.self) = r
       /\ LET r == RemoveObsWithNoPhotos(Self)
          IN  r.raised = Ok => RemoveObsWithNoPhotos(r.self) = r
       /\ \A m \in MinIdentifications :
              LET r == EnforceMinIdentifications(Self, m)
              IN  r.raised = Ok => EnforceMinIdentifications(r.self, m) = r

\* enforce_min_identifications removed an observation and identifications,
\* and run again on what it left it returns the same store.
C9_Witness ==
    /\ call.op = "enforce_min_identifications"
    /\ status = Ok
    /\ Len(observations) < Len(pre.observations)
    /\ Len(identifications) < Len(pre.identifications)
    /\ identifications # <<>>
    /\ EnforceMinIdentifications(Self, call.n) = Returned(Self)

\* C10: enforce_min_identifications(m) leaves the observations that had at
\* least m identifications, all of their identifications and no other.
C10_MinIdentifications ==
    (call.op = "enforce_min_identifications" /\ status = Ok)
    => /\ observations =
            SelectSeq(pre.observations,
                      LAMBDA ob : NumIdensOf(pre.identifications, ob.id) >= call.n)
       /\ identifications =
            SelectSeq(pre.identifications,
                      LAMBDA iden : iden.observation_id \in IdsIn(observations))

\* enforce_min_identifications(2) kept an observation with two
\* identifications and removed one with exactly one.
C10_Witness ==
    /\ call.op = "enforce_min_identifications"
    /\ call.n = 2
    /\ status = Ok
    /\ Len(identifications) = 2
    /\ Len(pre.identifications) = 3
    /\ Len(observations) = 1
    /\ Len(pre.observations) = 2

\* C11: enforce_max_observations(max) on n observations: for max None or
\* n <= max it returns normally and leaves collections and index maps as they
\* were; otherwise, whatever the sample, it returns normally with exactly max
\* observations, all of the list before and in its order, and with the
\* identifications of the list before that name one of them.
C11_MaxObservations ==
    call.op = "enforce_max_observations"
    => /\ status = Ok
       /\ IF call.n = NoneArg \/ Len(pre.observations) <= call.n
          THEN Collections = pre
          ELSE /\ Len(observations) = call.n
               /\ observations = Restrict(pre.observations, IdsIn(observations))
               /\ identifications =
                    SelectSeq(pre.identifications,
                              LAMBDA iden : iden.observation_id \in IdsIn(observations))

\* enforce_max_observations(2) on three observations removed one that had
\* identifications.
C11_Witness ==
    /\ call.op = "enforce_max_observations"
    /\ call.n = 2
    /\ Len(pre.observations) = 3
    /\ Len(observations) = 2
    /\ identifications # <<>>
    /\ Len(identifications) < Len(pre.identifications)

\* enforce_max_observations(2) on two observations: nothing to remove.
C11_WitnessNoOp ==
    /\ call.op = "enforce_max_observations"
    /\ call.n = 2
    /\ Len(pre.observations) = 2
    /\ Collections = pre
    /\ identifications # <<>>

\* keep_current_identifications() then enforce_min_identifications(2) on self.
CurrentThenMin(self) ==
    LET a == KeepCurrentIdentifications(self)
    IN  IF a.raised # Ok THEN a ELSE EnforceMinIdentifications(a.self, 2)

\* enforce_min_identifications(2) then keep_current_identifications() on self.
MinThenCurrent(self) ==
    LET a == EnforceMinIdentifications(self, 2)
    IN  IF a.raised # Ok THEN a ELSE KeepCurrentIdentifications(a.self)

\* The store as it was when the last call began.
PreSelf == Store(pre.observations, pre.observation_photos, pre.identifications,
                 pre.taxa, users, pre.taxon_id_to_taxon, pre.ob_id_to_ob,
                 pre.iden_id_to_iden)

NumCurrentIdensOf(idens, ob_id) ==
    Cardinality({i \in DOMAIN idens : /\ idens[i].observation_id = ob_id
                                      /\ idens[i].current = TRUE})

\* C12: keep_current_identifications and enforce_min_identifications(2) do
\* not commute: on a store where both orders return, current-then-min leaves
\* the observations with two current identifications, min-then-current those
\* with two identifications, and the two differ exactly when an observation
\* has two identifications of which fewer than two are current.
C12_OrderMatters ==
    status = Ok
    => LET a == CurrentThenMin(Self)
           b == MinThenCurrent(Self)
       IN  (a.raised = Ok /\ b.raised = Ok)
           => /\ IdsIn(a.self.observations) \subseteq IdsIn(b.self.observations)
              /\ IdsIn(a.self.observations) # IdsIn(b.self.observations)
                 <=> \E i \in DOMAIN observations :
                        /\ NumIdensOf(identifications, observations[i].id) >= 2
                        /\ NumCurrentIdensOf(identifications, observations[i].id) < 2

\* keep_current_identifications removed a non-current identification; after
\* it enforce_min_identifications(2) leaves no observation, while the reverse
\* order on the store before it leaves one.
C12_Witness ==
    /\ call.op = "keep_current_identifications"
    /\ status = Ok
    /\ Len(identifications) < Len(pre.identifications)
    /\ CurrentThenMin(PreSelf) = EnforceMinIdentifications(Self, 2)
    /\ EnforceMinIdentifications(Self, 2).raised = Ok
    /\ EnforceMinIdentifications(Self, 2).self.observations = <<>>
    /\ MinThenCurrent(PreSelf).raised = Ok
    /\ MinThenCurrent(PreSelf).self.observations # <<>>

\* The taxon of tx with the id taxon_id.
TaxonOf(tx, taxon_id) == tx[CHOOSE i \in DOMAIN tx : tx[i].id = taxon_id]

\* The ids of the taxa of tx below the rank level T.
Below(tx, T) == {tx[i].id : i \in {j \in DOMAIN tx : tx[j].rank_level < T}}

\* The positions of taxon's ancestry path (root first, parent last) that name
\* a taxon of tx of rank level T or above.
QualifyingPositions(tx, taxon, T) ==
    IF taxon.ancestry.is_none THEN {}
    ELSE {k \in DOMAIN taxon.ancestry.parts :
             \E i \in DOMAIN tx : /\ tx[i].id = taxon.ancestry.parts[k]
                                  /\ tx[i].rank_level >= T}

HasQualifyingAncestor(tx, taxon, T) == QualifyingPositions(tx, taxon, T) # {}

\* The qualifying ancestor nearest to taxon: the last on its path.
NearestQualifyingAncestor(tx, taxon, T) ==
    LET q == QualifyingPositions(tx, taxon, T)
    IN  taxon.ancestry.parts[CHOOSE k \in q : \A m \in q : m <= k]

\* The identification of the list before the call with the id of iden.
Before(iden) ==
    pre.identifications[CHOOSE j \in DOMAIN pre.identifications :
                            pre.identifications[j].id = iden.id]

\* C13: when set_rank_level_as_leaf_level(T) returns, every identification
\* left whose taxon was below T names the nearest ancestor of that taxon with
\* rank level >= T (the last such on its ancestry path), and no taxon that
\* was below T is left in the taxon collection.
C13_RemapsToNearestAncestor ==
    (call.op = "set_rank_level_as_leaf_level" /\ status = Ok)
    => /\ \A i \in DOMAIN identifications :
              LET old == Before(identifications[i])
              IN  old.taxon_id \in Below(pre.taxa, call.n)
                  => /\ HasQualifyingAncestor(pre.taxa,
                            TaxonOf(pre.taxa, old.taxon_id), call.n)
                     /\ identifications[i].taxon_id =
                            NearestQualifyingAncestor(pre.taxa,
                                TaxonOf(pre.taxa, old.taxon_id), call.n)
       /\ IdsIn(taxa) \cap Below(pre.taxa, call.n) = {}

\* C13 on a store whose identifications all name a taxon of the store.
C13_OnResolvingStore ==
    Resolves(pre.identifications, pre.observations, pre.taxa)
    => C13_RemapsToNearestAncestor

\* The species (ancestry 1/2) of an identification was remapped to the genus
\* 2 by set_rank_level_as_leaf_level(20), with family, genus and species in
\* the store.
C13_WitnessExample ==
    /\ call.op = "set_rank_level_as_leaf_level"
    /\ call.n = 20
    /\ status = Ok
    /\ pre.taxa = <<Family, Genus, Species(Ancestry(<<1, 2>>), TRUE)>>
    /\ \E i \in DOMAIN identifications :
           /\ Before(identifications[i]).taxon_id = 3
           /\ identifications[i].taxon_id = 2
    /\ IdsIn(taxa) = {1, 2}

\* The taxon ids the identifications of idens name.
TaxonIdsNamed(idens) == {idens[i].taxon_id : i \in DOMAIN idens}

\* C14 as claimed: when set_rank_level_as_leaf_level(T) returns, every taxon
\* left has rank level >= T and is named by an identification left.
C14_Original_LeftTaxaReferenced ==
    (call.op = "set_rank_level_as_leaf_level" /\ status = Ok)
    => \A i \in DOMAIN taxa :
           /\ taxa[i].rank_level >= call.n
           /\ taxa[i].id \in TaxonIdsNamed(identifications)

\* C14 as amended: when set_rank_level_as_leaf_level(T) returns, the taxa
\* left are the previous taxa of rank level >= T, all of them and in their
\* order, named by an identification or not; taxon_id_to_taxon has their ids.
C14_LeftTaxaAtOrAboveRank ==
    (call.op = "set_rank_level_as_leaf_level" /\ status = Ok)
    => /\ taxa = SelectSeq(pre.taxa, LAMBDA taxon : taxon.rank_level >= call.n)
       /\ \A i \in DOMAIN taxa : taxa[i].rank_level >= call.n
       /\ taxon_id_to_taxon = IdsIn(taxa)

\* set_rank_level_as_leaf_level(20) removed the species, rewrote an
\* identification to the genus and left the family, which no identification
\* names.
C14_Witness ==
    /\ call.op = "set_rank_level_as_leaf_level"
    /\ call.n = 20
    /\ status = Ok
    /\ IdsIn(pre.taxa) = {1, 2, 3}
    /\ IdsIn(taxa) = {1, 2}
    /\ TaxonIdsNamed(pre.identifications) = {3}
    /\ TaxonIdsNamed(identifications) = {2}

\* C15: set_rank_level_as_leaf_level(T) on a store with a taxon below T that
\* has no ancestor of rank level >= T in the store (ancestry None, empty,
\* malformed, or naming unknown or lower taxa only) returns normally, and
\* neither that taxon nor an identification that named it is left.
C15_UnremappableDropped ==
    call.op = "set_rank_level_as_leaf_level"
    => \A k \in DOMAIN pre.taxa :
           (/\ pre.taxa[k].rank_level < call.n
            /\ ~HasQualifyingAncestor(pre.taxa, pre.taxa[k], call.n))
           => /\ status = Ok
              /\ pre.taxa[k].id \notin IdsIn(taxa)
              /\ \A i \in DOMAIN identifications :
                     Before(identifications[i]).taxon_id # pre.taxa[k].id

\* C15 for the taxa whose ancestry is None or holds numbers only: the part
\* of the claim the store keeps.
C15_WellFormedUnremappableDropped ==
    call.op = "set_rank_level_as_leaf_level"
    => \A k \in DOMAIN pre.taxa :
           (/\ pre.taxa[k].rank_level < call.n
            /\ ~HasQualifyingAncestor(pre.taxa, pre.taxa[k], call.n)
            /\ \A j \in DOMAIN pre.taxa : \A m \in DOMAIN pre.taxa[j].ancestry.parts :
                   pre.taxa[j].ancestry.parts[m] # BadToken)
           => /\ status = Ok
              /\ pre.taxa[k].id \notin IdsIn(taxa)
              /\ \A i \in DOMAIN identifications :
                     Before(identifications[i]).taxon_id # pre.taxa[k].id

\* C16: when set_rank_level_as_leaf_level(T) returns, every identification
\* that named a taxon of rank level >= T is in the list as it was, and no
\* identification is left that named a taxon of no collection, wherever in
\* the list such identifications stood.
C16_FrameAndUnknownTaxaDropped ==
    (call.op = "set_rank_level_as_leaf_level" /\ status = Ok)
    => /\ \A j \in DOMAIN pre.identifications :
              (/\ pre.identifications[j].taxon_id \in IdsIn(pre.taxa)
               /\ pre.identifications[j].taxon_id \notin Below(pre.taxa, call.n))
              => \E i \in DOMAIN identifications :
                     identifications[i] = pre.identifications[j]
       /\ \A i \in DOMAIN identifications :
              Before(identifications[i]).taxon_id \in IdsIn(pre.taxa)

\* The frame half of C16, which the store keeps: identifications of a taxon
\* of rank level >= T are left as they were.
C16_FrameOnly ==
    (call.op = "set_rank_level_as_leaf_level" /\ status = Ok)
    => \A j \in DOMAIN pre.identifications :
           (/\ pre.identifications[j].taxon_id \in IdsIn(pre.taxa)
            /\ pre.identifications[j].taxon_id \notin Below(pre.taxa, call.n))
           => \E i \in DOMAIN identifications :
                  identifications[i] = pre.identifications[j]

\* Every identification of idens names a taxon of tx of rank level T.
AllAtRank(idens, tx, T) ==
    \A i \in DOMAIN idens :
        \E k \in DOMAIN tx : /\ tx[k].id = idens[i].taxon_id
                             /\ tx[k].rank_level = T

\* C17: create_flat_taxonomy(T) returns normally with the previous taxa of
\* rank level T, all of them and in their order, and with the previous
\* identifications that name one of them; so after
\* set_rank_level_as_leaf_level(T) and create_flat_taxonomy(T) every
\* identification left names a taxon of the store of rank level exactly T.
C17_FlatTaxonomy ==
    /\ call.op = "create_flat_taxonomy"
       => /\ status = Ok
          /\ taxa = SelectSeq(pre.taxa, LAMBDA taxon : taxon.rank_level = call.n)
          /\ identifications =
                SelectSeq(pre.identifications,
                          LAMBDA iden : iden.taxon_id \in IdsIn(taxa))
          /\ AllAtRank(identifications, taxa, call.n)
    /\ status = Ok
       => \A T \in LeafRankLevels :
              LET a == SetRankLevelAsLeafLevel(Self, T)
                  b == CreateFlatTaxonomy(a.self, T)
              IN  a.raised = Ok
                  => /\ b.raised = Ok
                     /\ AllAtRank(b.self.identifications, b.self.taxa, T)

\* create_flat_taxonomy(20) ran on what set_rank_level_as_leaf_level(20) made
\* of a constructed store by rewriting an identification; it removed the
\* family and an identification of it and left one of the genus.
C17_Witness ==
    /\ call.op = "create_flat_taxonomy"
    /\ call.n = 20
    /\ status = Ok
    /\ IdsIn(pre.taxa) = {1, 2}
    /\ IdsIn(taxa) = {2}
    /\ identifications # <<>>
    /\ Len(identifications) < Len(pre.identifications)
    /\ \E a \in TaxonomyArchives :
           LET c == Construct(a.observations, a.observation_photos,
                              a.identifications, a.taxa, users)
           IN  /\ c.raised = Ok
               /\ SetRankLevelAsLeafLevel(c.self, 20) = Returned(PreSelf)
               /\ c.self.identifications # pre.identifications

----------------------------------------------------------------------------
(* The claims on the assembler. *)

\* The community_taxon_id of the observation of iden.
CommunityTaxonOf(iden) ==
    (CHOOSE ob \in {observations[i] : i \in DOMAIN observations} :
         ob.id = iden.observation_id).community_taxon_id

\* The number of identifications whose observation has the community taxon
\* taxon_id.
NumIdensWithCommunityTaxon(taxon_id) ==
    Cardinality({i \in DOMAIN identifications :
                    CommunityTaxonOf(identifications[i]) = taxon_id})

\* That number, or 1 when it is 0.
SmoothedCount(taxon_id) ==
    IF NumIdensWithCommunityTaxon(taxon_id) = 0 THEN 1
    ELSE NumIdensWithCommunityTaxon(taxon_id)

RECURSIVE SumOfCounts(_)
SumOfCounts(S) ==
    IF S = {} THEN 0
    ELSE LET t == CHOOSE t \in S : TRUE
         IN  SmoothedCount(t) + SumOfCounts(S \ {t})

RECURSIVE SumOfNumerators(_)
SumOfNumerators(items) ==
    IF items = <<>> THEN 0
    ELSE items[1].prior.num + SumOfNumerators(Tail(items))

\* C18: when estimate_taxa_priors(extra) returns, the mapping has one entry
\* per taxon of the working set (the taxa the identifications name, and
\* extra) and no other; the weight of a taxon is c / total, c the number of
\* identifications whose observation has it as community taxon, or 1 when
\* there is none, and total the sum of the c; every weight is positive and
\* the numerators add up to the denominator.
C18_TaxaPriors ==
    (call.op = "estimate_taxa_priors" /\ status = Ok)
    => LET items == taxa_priors.items
           working_set == TaxonIdsNamed(identifications) \cup call.ids
           total == SumOfCounts(working_set)
       IN  /\ taxa_priors.estimated
           /\ {items[k].taxon_id : k \in DOMAIN items} = working_set
           /\ Len(items) = Cardinality(working_set)
           /\ \A k \in DOMAIN items :
                  /\ items[k].prior = Fraction(SmoothedCount(items[k].taxon_id), total)
                  /\ items[k].prior.num > 0
                  /\ items[k].prior.den > 0
           /\ items # <<>> => SumOfNumerators(items) = total

\* estimate_taxa_priors({3}) on identifications with counts 3 and 1 returned
\* the priors 3/5, 1/5 and, for taxon 3 that has no count, 1/5.
C18_Witness ==
    /\ call.op = "estimate_taxa_priors"
    /\ status = Ok
    /\ call.ids = {3}
    /\ taxa_priors.items = <<[taxon_id |-> 1, prior |-> Fraction(3, 5)],
                             [taxon_id |-> 2, prior |-> Fraction(1, 5)],
                             [taxon_id |-> 3, prior |-> Fraction(1, 5)]>>

\* Sibling stores: built from an archive of at most one identification, the
\* observations without photo removed.
SiblingStores ==
    {RemoveObsWithNoPhotos(
         Construct(a.observations, a.observation_photos, a.identifications,
                   a.taxa, Users).self).self :
        a \in {b \in AssemblerArchives : Len(b.identifications) <= 1}}

\* C19: when create_dataset(priors) returns, the n taxa of priors carry the
\* labels 0..n-1, the k-th taxon in the insertion order of priors the label
\* k-1; num_classes is n and global_class_priors holds at position k the
\* prior of the k-th taxon; create_dataset(priors) on a sibling store gives
\* the same taxon-to-label mapping.
C19_DenseLabelsInInsertionOrder ==
    (call.op = "create_dataset" /\ status = Ok)
    => LET priors == call.ids
           n == Len(priors)
           labels == dataset.inat_taxon_id_to_class_label
       IN  /\ dataset.created
           /\ dataset.num_classes = n
           /\ DOMAIN labels = {priors[k].taxon_id : k \in 1..n}
           /\ {labels[t] : t \in DOMAIN labels} = 0..(n - 1)
           /\ \A k \in 1..n : labels[priors[k].taxon_id] = k - 1
           /\ Len(dataset.global_class_priors) = n
           /\ \A k \in 1..n : dataset.global_class_priors[k] = priors[k].prior
           /\ \A sibling \in SiblingStores :
                  LET r == CreateDataset(sibling, priors)
                  IN  r.raised = Ok
                      => r.value.inat_taxon_id_to_class_label = labels

\* create_dataset was handed priors that list taxon 2 before taxon 1: taxon
\* 2 has label 0 and taxon 1 label 1, and identifications were annotated; a
\* sibling store with an identification returns too.
C19_Witness ==
    /\ call.op = "create_dataset"
    /\ status = Ok
    /\ Len(call.ids) = 2
    /\ call.ids[1].taxon_id = 2
    /\ dataset.inat_taxon_id_to_class_label[2] = 0
    /\ dataset.inat_taxon_id_to_class_label[1] = 1
    /\ dataset.global_class_priors = <<Fraction(1, 3), Fraction(2, 3)>>
    /\ Len(dataset.annos) >= 2
    /\ \E sibling \in SiblingStores :
           /\ sibling.identifications # <<>>
           /\ CreateDataset(sibling, call.ids).raised = Ok

\* The taxa the mapping priors has an entry for.
KeysOf(priors) == {priors[k].taxon_id : k \in DOMAIN priors}

\* The label create_dataset gives the taxon taxon_id of priors.
LabelIn(priors, taxon_id) ==
    (CHOOSE k \in DOMAIN priors : priors[k].taxon_id = taxon_id) - 1

\* Every observation of the store has a photo.
AllObsHavePhotos ==
    \A i \in DOMAIN observations :
        \E j \in DOMAIN observation_photos :
            observation_photos[j].observation_id = observations[i].id

C20_WitnessReturned ==
    /\ call.op = "create_dataset"
    /\ status = Ok
    /\ \E i, j \in DOMAIN dataset.annos :
           dataset.annos[i].label # dataset.annos[j].label

----------------------------------------------------------------------------
(* The claims on photos, sibling stores and main. *)

\* The operations that remove observations.
ObservationFilters ==
    {"keep_specific_observations", "remove_obs_with_no_photos",
     "enforce_min_identifications", "enforce_max_observations"}

\* C21 as claimed: after an operation that removes observations, every
\* record of observation_photos names an observation of the store.
C21_Original_PhotosFollowObservations ==
    (call.op \in ObservationFilters /\ status = Ok)
    => \A j \in DOMAIN observation_photos :
           observation_photos[j].observation_id \in IdsIn(observations)

\* C21 as amended: no pipeline operation changes observation_photos, the
\* photos of a removed observation stay in it.
C21_PhotosNeverChange ==
    call.op \in PipelineOps => observation_photos = pre.observation_photos

\* keep_specific_observations removed an observation whose photo is still in
\* observation_photos.
C21_Witness ==
    /\ call.op = "keep_specific_observations"
    /\ status = Ok
    /\ Len(observations) < Len(pre.observations)
    /\ \E j \in DOMAIN observation_photos :
           /\ observation_photos[j].observation_id \in IdsIn(pre.observations)
           /\ observation_photos[j].observation_id \notin IdsIn(observations)

\* A store built from the archive main loaded, no other store having been
\* built from it.
BuiltAlone ==
    Construct(main.archive.observations, main.archive.observation_photos,
              main.archive.identifications, main.archive.taxa, users)

\* What a call left of observations, identifications and taxa.
Sees(r) == [observations |-> r.self.observations,
            identifications |-> r.self.identifications,
            taxa |-> r.self.taxa, raised |-> r.raised]

\* C22: worker_inat, built from the lists ob_inat was built from and put
\* through its pipeline, has after its construction, and after its
\* set_rank_level_as_leaf_level, the observations, identifications (each
\* taxon_id included) and taxa it would have had ob_inat never existed.
C22_SiblingStoreUnaffected ==
    /\ (main.store = "worker_inat" /\ call.op = "__init__")
       => Sees([self |-> Self, raised |-> status]) = Sees(BuiltAlone)
    /\ (main.store = "worker_inat" /\ call.op = "set_rank_level_as_leaf_level"
        /\ BuiltAlone.raised = Ok)
       => Sees([self |-> Self, raised |-> status])
              = Sees(SetRankLevelAsLeafLevel(BuiltAlone.self, MainLeafRankLevel))

\* C23: when worker_inat is through its pipeline (keep_specific_observations
\* (ob_ids), keep_one_identification_per_user_per_observation(0),
\* remove_obs_with_no_photos, enforce_min_identifications(2),
\* enforce_max_observations), its observation ids are the observation ids
\* of ob_inat.
C23_SameObservationSet ==
    MainAt("worker_inat", "enforce_max_observations")
    => IdsIn(observations) = IdsIn(main.ob_inat.observations)

\* Both observations have two current identifications by two users,
\* enforce_max_observations(1) drew observation 2 on ob_inat, and both stores
\* end with observation 2 alone.
C23_Witness ==
    /\ MainAt("worker_inat", "enforce_max_observations")
    /\ IdsIn(observations) = {2}
    /\ IdsIn(main.ob_inat.observations) = {2}
    /\ main.max_observations = 1
    /\ Len(main.archive.identifications) = 4
    /\ AllCurrent(main.archive.identifications)

\* Observation 1 has two current identifications by two users and a third
\* that is not current: both stores end with it.
C23_WitnessNotCurrent ==
    /\ MainAt("worker_inat", "enforce_max_observations")
    /\ IdsIn(observations) = {1}
    /\ Len(main.ob_inat.identifications) = 2
    /\ Len(main.archive.identifications) = 3
    /\ \E i \in DOMAIN main.archive.identifications :
           main.archive.identifications[i].current = FALSE

\* C24: in main, the priors estimated on ob_inat with include_taxa_ids the
\* taxon ids of the identifications of ob_inat and worker_inat have a key
\* for the taxon of every identification of either store; create_dataset
\* raises AssertionError on neither store, and the two datasets have the
\* same taxon-to-label mapping.
C24_PriorsCoverBothStores ==
    /\ MainAt("worker_inat", "estimate_taxa_priors")
       => /\ taxa_priors.estimated
          /\ TaxonIdsNamed(main.ob_inat.identifications) \subseteq KeysOf(taxa_priors.items)
          /\ TaxonIdsNamed(identifications) \subseteq KeysOf(taxa_priors.items)
    /\ (main.store = "worker_inat" /\ call.op = "create_dataset")
       => status # "AssertionError"
    /\ (main.store = "worker_inat" /\ dataset.created)
       => /\ main.ob_label_pred_dataset.created
          /\ dataset.inat_taxon_id_to_class_label
                 = main.ob_label_pred_dataset.inat_taxon_id_to_class_label
          /\ \A i \in DOMAIN identifications :
                 identifications[i].taxon_id
                     \in DOMAIN dataset.inat_taxon_id_to_class_label

\* Both datasets are made, each of two identifications, and worker_inat
\* has an identification of a taxon that no identification of ob_inat names.
C24_Witness ==
    /\ main.store = "worker_inat"
    /\ dataset.created
    /\ main.ob_label_pred_dataset.created
    /\ Len(main.ob_inat.identifications) = 2
    /\ Len(identifications) = 2
    /\ TaxonIdsNamed(identifications) # TaxonIdsNamed(main.ob_inat.identifications)

\* The identifications whose taxon_id the last call wrote: those left, by
\* position, whose taxon_id is not the one the identification of that id had.
Written ==
    {i \in DOMAIN identifications :
        \E j \in DOMAIN pre.identifications :
            /\ pre.identifications[j].id = identifications[i].id
            /\ pre.identifications[j].taxon_id # identifications[i].taxon_id}

\* C25: a pipeline operation, whether it returns or raises, leaves no
\* observation id, identification id or taxon id that was not there before
\* it and leaves users as loaded; every taxon_id that
\* set_rank_level_as_leaf_level wrote into an identification is the id of a
\* taxon that was in the store and is in it when the operation returns.
C25_OnlyRemoved ==
    call.op \in PipelineOps
    => /\ IdsIn(observations) \subseteq IdsIn(pre.observations)
       /\ IdsIn(identifications) \subseteq IdsIn(pre.identifications)
       /\ IdsIn(taxa) \subseteq IdsIn(pre.taxa)
       /\ users = Users
       /\ (call.op # "set_rank_level_as_leaf_level") => Written = {}
       /\ (call.op = "set_rank_level_as_leaf_level" /\ status = Ok)
          => \A i \in Written :
                 /\ identifications[i].taxon_id \in IdsIn(pre.taxa)
                 /\ identifications[i].taxon_id \in IdsIn(taxa)

\* set_rank_level_as_leaf_level wrote the taxon_id of an identification and
\* removed the taxon it had.
C25_Witness ==
    /\ call.op = "set_rank_level_as_leaf_level"
    /\ status = Ok
    /\ \E i \in Written :
           \E j \in DOMAIN pre.identifications :
               /\ pre.identifications[j].id = identifications[i].id
               /\ pre.identifications[j].taxon_id \notin IdsIn(taxa)
               /\ pre.identifications[j].taxon_id \in IdsIn(pre.taxa)
    /\ IdsIn(taxa) # IdsIn(pre.taxa)

====
